---- MODULE Spec2Model ----
(***************************************************************************)
(* Model of the text transformation app (streamlit_app.py) and of its      *)
(* Word Metrics page (Pages/Word_Metrics.py).                              *)
(*                                                                         *)
(* A Python str is a sequence of one-character strings.  A missing cell of *)
(* the uploaded table (pandas NaN) is the value NaN below.                 *)
(***************************************************************************)
EXTENDS Integers, Sequences, FiniteSets, TLC

\* ------------------------------------------------------------------ bounds
MaxTextLen == 4

\* --------------------------------------------------------------- characters
Whitespace == {" ", "\t"}
Terminal == {".", "!", "?"}
NaN == <<"NaN">>

Max(a, b) == IF a >= b THEN a ELSE b
Min(a, b) == IF a <= b THEN a ELSE b

StringsUpTo(alphabet, n) == UNION {[1..k -> alphabet] : k \in 0..n}

\* str(x): a float NaN prints as "nan", a str is itself
str(x) == IF x = NaN THEN <<"n", "a", "n">> ELSE x

\* str.lower(), on ASCII letters
Upper == <<"A", "B", "C", "D", "E", "F", "G", "H", "I", "J", "K", "L", "M",
           "N", "O", "P", "Q", "R", "S", "T", "U", "V", "W", "X", "Y", "Z">>
Lower == <<"a", "b", "c", "d", "e", "f", "g", "h", "i", "j", "k", "l", "m",
           "n", "o", "p", "q", "r", "s", "t", "u", "v", "w", "x", "y", "z">>

LowerChar(c) ==
    IF \E i \in 1..26 : Upper[i] = c
    THEN Lower[CHOOSE i \in 1..26 : Upper[i] = c]
    ELSE c

lower(s) == [i \in 1..Len(s) |-> LowerChar(s[i])]

\* `needle in haystack` for two str
Contains(haystack, needle) ==
    \E off \in 0..(Len(haystack) - Len(needle)) :
        SubSeq(haystack, off + 1, off + Len(needle)) = needle

\* " ".join(parts)
RECURSIVE join(_)
join(parts) ==
    IF parts = <<>> THEN <<>>
    ELSE IF Len(parts) = 1 THEN parts[1]
    ELSE parts[1] \o <<" ">> \o join(Tail(parts))

\* str.strip()
RECURSIVE lstrip(_)
lstrip(s) == IF s # <<>> /\ s[1] \in Whitespace THEN lstrip(Tail(s)) ELSE s

RECURSIVE rstrip(_)
rstrip(s) ==
    IF s # <<>> /\ s[Len(s)] \in Whitespace
    THEN rstrip(SubSeq(s, 1, Len(s) - 1)) ELSE s

strip(s) == rstrip(lstrip(s))

\* re.sub(r"\s+", " ", s): every maximal run of whitespace becomes one space
RECURSIVE collapse_ws(_)
collapse_ws(s) ==
    IF s = <<>> THEN <<>>
    ELSE IF s[1] \in Whitespace
         THEN <<" ">> \o collapse_ws(lstrip(s))
         ELSE <<s[1]>> \o collapse_ws(Tail(s))

\* re.fullmatch(r"[.!?]+", s)
only_terminal(s) == s # <<>> /\ \A i \in 1..Len(s) : s[i] \in Terminal

\* str.split(): the whitespace-separated tokens
RECURSIVE split_ws(_)
split_ws(s) ==
    LET t == lstrip(s)
        n == IF \E i \in 1..Len(t) : t[i] \in Whitespace
             THEN (CHOOSE i \in 1..Len(t) :
                      /\ t[i] \in Whitespace
                      /\ \A j \in 1..(i - 1) : t[j] \notin Whitespace) - 1
             ELSE Len(t)
    IN IF t = <<>> THEN <<>>
       ELSE <<SubSeq(t, 1, n)>> \o split_ws(SubSeq(t, n + 1, Len(t)))

\* ------------------------------------------------------------- segmentation
\* Positions are gaps: gap q lies before character q, q in 1..Len(s)+1.

RECURSIVE skip_ws(_, _)
skip_ws(s, q) == IF q <= Len(s) /\ s[q] \in Whitespace THEN skip_ws(s, q + 1) ELSE q

\* (?<=[.!?])\s+ at gap q: the gap after the matched run, 0 when no match
sentence_break(s, q) ==
    IF q > 1 /\ q <= Len(s) /\ s[q - 1] \in Terminal /\ s[q] \in Whitespace
    THEN skip_ws(s, q) ELSE 0

\* (?=#[^\s]+) at gap q: an empty match
hashtag_ahead(s, q) ==
    q + 1 <= Len(s) /\ s[q] = "#" /\ s[q + 1] \notin Whitespace

\* one pattern match at gap q, given the search started at gap pos
matches_at(s, include_hashtags, q, pos, must_advance) ==
    \/ sentence_break(s, q) # 0
    \/ /\ include_hashtags
       /\ hashtag_ahead(s, q)
       /\ ~(must_advance /\ q = pos)

\* re.split(pattern, s): the scanner loop of the regex engine
RECURSIVE re_split_from(_, _, _, _)
re_split_from(s, include_hashtags, pos, must_advance) ==
    LET hits == {q \in pos..(Len(s) + 1) :
                    matches_at(s, include_hashtags, q, pos, must_advance)}
        q == CHOOSE h \in hits : \A g \in hits : h <= g
        e == IF sentence_break(s, q) # 0 THEN sentence_break(s, q) ELSE q
    IN IF hits = {} THEN <<SubSeq(s, pos, Len(s))>>
       ELSE <<SubSeq(s, pos, q - 1)>> \o re_split_from(s, include_hashtags, e, e = q)

re_split(s, include_hashtags) == re_split_from(s, include_hashtags, 1, FALSE)

clean_fragment(s) == collapse_ws(strip(s))

keep_fragment(s) == s # <<>> /\ ~only_terminal(s)

\* the `cleaned` list of process_dataframe for one cell
segment(cell, include_hashtags) ==
    LET sentences == re_split(str(cell), include_hashtags)
        cleaned == [i \in 1..Len(sentences) |-> clean_fragment(sentences[i])]
    IN SelectSeq(cleaned, keep_fragment)

\* ----------------------------------------------------------- classification
\* JSON values: a dict is [type |-> "dict", items |-> <<[cat, kws], ...>>] in
\* insertion order; a list is [type |-> "list", items |-> <<...>>]; a str that
\* stands where a list is expected is [type |-> "str", s |-> chars]; a number
\* is [type |-> "int"].  A phrase is a str, or the number Num.
Num == <<"Num">>
Raised == "!exception"

List(items) == [type |-> "list", items |-> items]
Str(s) == [type |-> "str", s |-> s]
Number == [type |-> "int"]
Dict(items) == [type |-> "dict", items |-> items]

DEFAULT_DICT ==
    Dict(<<
      [cat |-> "Fashion", kws |-> List(<<
          <<"s", "t", "y", "l", "e">>,
          <<"f", "a", "s", "h", "i", "o", "n">>,
          <<"w", "a", "r", "d", "r", "o", "b", "e">>,
          <<"c", "l", "o", "t", "h", "i", "n", "g">>,
          <<"o", "u", "t", "f", "i", "t">>>>)],
      [cat |-> "Food", kws |-> List(<<
          <<"d", "e", "l", "i", "c", "i", "o", "u", "s">>,
          <<"f", "o", "o", "d">>,
          <<"d", "i", "n", "n", "e", "r">>,
          <<"l", "u", "n", "c", "h">>,
          <<"r", "e", "s", "t", "a", "u", "r", "a", "n", "t">>>>)],
      [cat |-> "Travel", kws |-> List(<<
          <<"t", "r", "a", "v", "e", "l">>,
          <<"t", "r", "i", "p">>,
          <<"v", "a", "c", "a", "t", "i", "o", "n">>,
          <<"e", "x", "p", "l", "o", "r", "e">>,
          <<"j", "o", "u", "r", "n", "e", "y">>>>)],
      [cat |-> "Fitness", kws |-> List(<<
          <<"w", "o", "r", "k", "o", "u", "t">>,
          <<"f", "i", "t", "n", "e", "s", "s">>,
          <<"e", "x", "e", "r", "c", "i", "s", "e">>,
          <<"g", "y", "m">>,
          <<"t", "r", "a", "i", "n", "i", "n", "g">>>>)]>>)

\* `for k in kws`: a list yields its elements, a str its characters
iterate(kws) ==
    IF kws.type = "str" THEN [i \in 1..Len(kws.s) |-> <<kws.s[i]>>] ELSE kws.items

\* any(k.lower() in context_chunk for k in kws): "True", "False", or Raised
\* when the generator reaches a phrase that has no lower()
RECURSIVE any_keyword(_, _)
any_keyword(ks, context_chunk) ==
    IF ks = <<>> THEN "False"
    ELSE IF ks[1] = Num THEN Raised
    ELSE IF Contains(context_chunk, lower(ks[1])) THEN "True"
    ELSE any_keyword(Tail(ks), context_chunk)

\* variant: the operands of the subtraction exchanged
window_start_swapped(index, window_size) == Max(0, window_size - index)

window_start(index, window_size) == Max(0, index - window_size)

\* variant: the slice end without the + 1
window_end_short(index, n, window_size) == Min(n, index + window_size)

window_end(index, n, window_size) == Min(n, index + window_size + 1)

\* " ".join(sentences[start:end]).lower(), index 0-based as in the source
context_chunk_of(index, sentences, window_size) ==
    LET start == window_start(index, window_size)
        end == window_end(index, Len(sentences), window_size)
    IN lower(join(SubSeq(sentences, start + 1, end)))

\* the loop over kw_dict.items()
RECURSIVE first_category(_, _)
first_category(items, context_chunk) ==
    IF items = <<>> THEN "Uncategorized"
    ELSE IF items[1].kws.type = "int" THEN Raised
    ELSE LET hit == any_keyword(iterate(items[1].kws), context_chunk)
         IN IF hit = Raised THEN Raised
            ELSE IF hit = "True" THEN items[1].cat
            ELSE first_category(Tail(items), context_chunk)

classify_sentence_with_context(index, sentences, window_size, kw_dict) ==
    first_category(kw_dict.items, context_chunk_of(index, sentences, window_size))

\* ----------------------------------------------------- streamlit_app.py
\* A DataFrame that does not exist (nothing uploaded, nothing computed) is
\* NoFrame.
NoFrame == [exists |-> FALSE, rows |-> <<>>]
DataFrame(rows) == [exists |-> TRUE, rows |-> rows]

\* columns of the uploaded CSV, in file order
Columns == <<"post_id", "caption">>

\* df.rename(columns={id_col: "ID", text_col: "Context"}): with one key given
\* twice the dict literal keeps the later value
renamed(c, id_col, text_col) ==
    IF c = text_col THEN "Context" ELSE IF c = id_col THEN "ID" ELSE c

has_column(name, id_col, text_col) ==
    \E i \in 1..Len(Columns) : renamed(Columns[i], id_col, text_col) = name

\* row[name] on the renamed frame
get_cell(row, name, id_col, text_col) ==
    row[CHOOSE c \in {Columns[i] : i \in 1..Len(Columns)} :
            renamed(c, id_col, text_col) = name]

\* variant: enumerate(cleaned) without start=1
make_row_zero_based(rec, row, i, s, category, id_col, text_col) ==
    [rec |-> rec,
     ID |-> get_cell(row, "ID", id_col, text_col),
     Context |-> get_cell(row, "Context", id_col, text_col),
     Sentence_ID |-> i - 1,
     Statement |-> s,
     Category |-> category]

\* row_data of unit i (1-based, as enumerate(cleaned, start=1) counts) of
\* the row at frame index rec
make_row(rec, row, i, s, category, id_col, text_col) ==
    [rec |-> rec,
     ID |-> get_cell(row, "ID", id_col, text_col),
     Context |-> get_cell(row, "Context", id_col, text_col),
     Sentence_ID |-> i,
     Statement |-> s,
     Category |-> category]

\* the inner loop `for i, s in enumerate(cleaned, start=1)` from unit i on
RECURSIVE sentence_rows(_, _, _, _, _, _, _, _)
sentence_rows(rec, row, cleaned, i, id_col, text_col, kw_dict, window_size) ==
    IF i > Len(cleaned) THEN [rows |-> <<>>, raised |-> FALSE]
    ELSE LET category ==
                 classify_sentence_with_context(i - 1, cleaned, window_size, kw_dict)
         IN IF category = Raised \/ ~has_column("ID", id_col, text_col)
            THEN [rows |-> <<>>, raised |-> TRUE]
            ELSE LET rest == sentence_rows(rec, row, cleaned, i + 1, id_col,
                                           text_col, kw_dict, window_size)
                 IN [rows |-> <<make_row(rec, row, i, cleaned[i], category,
                                         id_col, text_col)>> \o rest.rows,
                     raised |-> rest.raised]

\* the outer loop `for _, row in df.iterrows()` from row k on: the rows
\* appended before the loop ends or an exception leaves it
RECURSIVE iterrows_from(_, _, _, _, _, _, _)
iterrows_from(df, k, id_col, text_col, kw_dict, window_size, include_hashtags) ==
    IF k > Len(df) THEN [rows |-> <<>>, raised |-> FALSE]
    ELSE LET cleaned == segment(get_cell(df[k], "Context", id_col, text_col),
                                include_hashtags)
             here == sentence_rows(k, df[k], cleaned, 1, id_col, text_col,
                                   kw_dict, window_size)
             rest == iterrows_from(df, k + 1, id_col, text_col, kw_dict,
                                   window_size, include_hashtags)
         IN IF here.raised THEN here
            ELSE [rows |-> here.rows \o rest.rows, raised |-> rest.raised]

\* variant: the loop wrapped in try/except, keeping the rows built so far
process_dataframe_partial(df, id_col, text_col, kw_dict, window_size, include_hashtags) ==
    LET out == iterrows_from(df, 1, id_col, text_col, kw_dict, window_size,
                             include_hashtags)
    IN [raised |-> FALSE, frame |-> DataFrame(out.rows)]

\* process_dataframe: the frame of all rows, or the exception that left it
process_dataframe(df, id_col, text_col, kw_dict, window_size, include_hashtags) ==
    LET out == iterrows_from(df, 1, id_col, text_col, kw_dict, window_size,
                             include_hashtags)
    IN IF out.raised THEN [raised |-> TRUE, frame |-> NoFrame]
       ELSE [raised |-> FALSE, frame |-> DataFrame(out.rows)]

\* final_df.to_csv(buff, index=False): a header line and one line per row
to_csv(frame) ==
    <<<<"ID", "Context", "Sentence ID", "Statement", "Category">>>> \o
    [i \in 1..Len(frame.rows) |->
        <<frame.rows[i].ID, frame.rows[i].Context, frame.rows[i].Sentence_ID,
          frame.rows[i].Statement, frame.rows[i].Category>>]

\* the text of the dictionary box: malformed JSON, or a JSON value
Malformed == [syntax |-> "malformed", value |-> Number]
Json(v) == [syntax |-> "ok", value |-> v]

\* variant: the except branch leaves an empty dictionary
parse_dictionary_empty(dict_input) ==
    IF dict_input.syntax = "malformed" \/ dict_input.value.type # "dict"
    THEN [keyword_dict |-> Dict(<<>>), error |-> TRUE]
    ELSE [keyword_dict |-> dict_input.value, error |-> FALSE]

\* json.loads(dict_input), the isinstance check and the except branch
parse_dictionary(dict_input) ==
    IF dict_input.syntax = "malformed" \/ dict_input.value.type # "dict"
    THEN [keyword_dict |-> DEFAULT_DICT, error |-> TRUE]
    ELSE [keyword_dict |-> dict_input.value, error |-> FALSE]

SLIDER_MAX == 5
SLIDER_DEFAULT == 1

\* ------------------------------------------------- Pages/Word_Metrics.py
\* Numbers of the page are in thousandths: 0.95 is 950.  A cell of a
\* classifier column is a number, NaN, or text that is not a number.
NumCell(v) == [kind |-> "num", v |-> v]
NanCell == [kind |-> "nan", v |-> 0]
TextCell == [kind |-> "str", v |-> 0]

\* round(): the nearest integer to num/den, a tie to the even one
round_half_even(num, den) ==
    LET q == num \div den
        r == num % den
    IN IF 2 * r < den THEN q
       ELSE IF 2 * r > den THEN q + 1
       ELSE IF q % 2 = 0 THEN q ELSE q + 1

\* random.uniform(a, b) = a + (b - a) * random(), with random() = u / DrawDen
DrawDen == 5
uniform(a, b, u) == a + ((b - a) * u) \div DrawDen

\* len(str(text).split())
word_count_of(cell) == Len(split_ws(str(cell)))

\* val > 0 on a float: false for nan
is_positive(val) == val.kind = "num" /\ val.v > 0

\* variant: the jittered value without the clamps
score_of_unclamped(val, u) ==
    IF is_positive(val)
    THEN val.v + uniform(-150, 150, u)
    ELSE uniform(50, 400, u)

\* the score of one classifier value, u the draw of random()
score_of(val, u) ==
    IF is_positive(val)
    THEN Min(950, Max(500, val.v + uniform(-150, 150, u)))
    ELSE Max(50, Min(500, uniform(50, 400, u)))

\* the statement-level loop from row k on; cols is classifier_columns
RECURSIVE statement_results(_, _, _, _)
statement_results(df, k, cols, draws) ==
    IF k > Len(df) THEN [rows |-> <<>>, raised |-> FALSE]
    ELSE LET base == [row_id |-> k,
                      id |-> df[k].id,
                      statement |-> df[k].text,
                      word_count |-> word_count_of(df[k].text)]
             val == df[k].label
             score == score_of(val, draws[k])
             result == IF cols = <<>> THEN base
                       ELSE [row_id |-> base.row_id,
                             id |-> base.id,
                             statement |-> base.statement,
                             word_count |-> base.word_count,
                             label_binary |-> val,
                             label_continuous |-> round_half_even(score, 1),
                             label_percentage |-> round_half_even(score, 10)]
             rest == statement_results(df, k + 1, cols, draws)
         IN IF cols # <<>> /\ val.kind = "str"
            THEN [rows |-> <<>>, raised |-> TRUE]
            ELSE [rows |-> <<result>> \o rest.rows, raised |-> rest.raised]

\* the group keys of df.groupby(id_column), ascending
RECURSIVE sorted_keys(_)
sorted_keys(S) ==
    IF S = {} THEN <<>>
    ELSE LET m == CHOOSE x \in S : \A y \in S : x <= y
         IN <<m>> \o sorted_keys(S \ {m})

group_of(df, uid) == SelectSeq(df, LAMBDA r : r.id = uid)

\* sum(len(s.split()) for s in statements)
RECURSIVE total_words_of(_)
total_words_of(group) ==
    IF group = <<>> THEN 0
    ELSE word_count_of(group[1].text) + total_words_of(Tail(group))

\* variant: values >= 0
RECURSIVE positive_count_nonnegative(_)
positive_count_nonnegative(group) ==
    IF group = <<>> THEN 0
    ELSE (IF group[1].label.kind = "num" /\ group[1].label.v >= 0 THEN 1 ELSE 0)
         + positive_count_nonnegative(Tail(group))

\* (values > 0).sum()
RECURSIVE positive_count(_)
positive_count(group) ==
    IF group = <<>> THEN 0
    ELSE (IF is_positive(group[1].label) THEN 1 ELSE 0) + positive_count(Tail(group))

\* one pass of `for uid, group in grouped`; positive_ratio is kept as the
\* pair <<positives, len(values)>>
aggregate_group(uid, group, cols) ==
    LET total_words == total_words_of(group)
        positives == positive_count(group)
        n == Len(group)
    IN IF cols = <<>>
       THEN [id |-> uid, total_word_count |-> total_words]
       ELSE [id |-> uid,
             total_word_count |-> total_words,
             positive_ratio |-> <<positives, n>>,
             label_word_count |-> round_half_even(total_words * positives, n),
             label_percentage |-> round_half_even(100 * positives, n),
             label_continuous_score |-> round_half_even(1000 * positives, n)]

\* group[col].astype(float) raises on text that is not a number
astype_float_raises(group) == \E i \in 1..Len(group) : group[i].label.kind = "str"

\* the ID-level loop over the remaining group keys
RECURSIVE id_results(_, _, _)
id_results(df, uids, cols) ==
    IF uids = <<>> THEN [rows |-> <<>>, raised |-> FALSE]
    ELSE LET group == group_of(df, uids[1])
             rest == id_results(df, Tail(uids), cols)
         IN IF cols # <<>> /\ astype_float_raises(group)
            THEN [rows |-> <<>>, raised |-> TRUE]
            ELSE [rows |-> <<aggregate_group(uids[1], group, cols)>> \o rest.rows,
                  raised |-> rest.raised]

\* the body of `if st.button("Process Data")` inside the try block
process_data(df, process_mode, cols, draws) ==
    LET out == IF process_mode = "Statement-level"
               THEN statement_results(df, 1, cols, draws)
               ELSE id_results(df, sorted_keys({df[i].id : i \in 1..Len(df)}), cols)
    IN IF out.raised THEN [raised |-> TRUE, frame |-> NoFrame]
       ELSE [raised |-> FALSE, frame |-> DataFrame(out.rows)]

\* ------------------------------------------------------------------ state
VARIABLES
    page,               \* the page of the app the browser shows
    \* streamlit_app.py
    raw_df,             \* pd.read_csv(uploaded_file), NoFrame before an upload
    dict_input,         \* the text of the dictionary box
    keyword_dict,       \* the dictionary the script settled on
    sidebar_error,      \* st.sidebar.error is shown
    use_context,        \* the rolling context checkbox
    window_size,        \* the slider value, 0 when use_context is off
    include_hashtags,   \* the hashtag checkbox
    id_column,          \* the ID selectbox
    context_column,     \* the Context selectbox
    final_df,           \* the frame st.dataframe shows, NoFrame when none
    download,           \* the data of the download button, <<>> when none
    exception,          \* the run ended in an uncaught exception
    \* Pages/Word_Metrics.py
    wm_df,              \* pd.read_csv(uploaded_file), NoFrame before an upload
    classifier_columns, \* the multiselect
    process_mode,       \* the radio button
    result_df,          \* the frame built after the loops, NoFrame when none
    wm_download,        \* the rows behind the download link, <<>> when none
    wm_error,           \* st.error is shown by the except branch
    \* segmentation applied to one text
    seg_text, seg_hashtags, seg_cleaned, seg_pc,
    \* classify_sentence_with_context applied to one input
    cls_index, cls_sentences, cls_window, cls_dict, cls_result, cls_pc

main_vars == <<raw_df, dict_input, keyword_dict, sidebar_error, use_context,
               window_size, include_hashtags, id_column, context_column,
               final_df, download, exception>>
wm_vars == <<wm_df, classifier_columns, process_mode, result_df, wm_download,
             wm_error>>
seg_vars == <<seg_text, seg_hashtags, seg_cleaned, seg_pc>>
cls_vars == <<cls_index, cls_sentences, cls_window, cls_dict, cls_result, cls_pc>>
vars == <<page, main_vars, wm_vars, seg_vars, cls_vars>>

\* ----------------------------------------------------------------- inputs
MaxRecords == 2
MaxWindow == 2
MaxRows == 4
MaxSentences == 3

CAPTION_GYM == <<"b", "?", " ", "G", "y", "m", "!", " ", "#", "b", " ", "c">>
CAPTION_DOT == <<" ", ".">>

SampleRecords ==
    {[post_id |-> <<"a">>, caption |-> CAPTION_GYM],
     [post_id |-> <<"b">>, caption |-> NaN],
     [post_id |-> <<"a">>, caption |-> CAPTION_DOT]}

SampleTables == UNION {[1..n -> SampleRecords] : n \in 0..MaxRecords}

USER_DICT ==
    Dict(<<[cat |-> "Mood", kws |-> List(<<<<"a">>>>)],
           [cat |-> "Tag", kws |-> List(<<<<"#", "b">>>>)]>>)

\* a phrase list with a number in it: lower() fails when the loop reaches it
NUMBER_DICT ==
    Dict(<<[cat |-> "Mood", kws |-> List(<<<<"b">>, Num>>)]>>)

DictInputs ==
    {Json(DEFAULT_DICT), Json(USER_DICT), Json(NUMBER_DICT), Malformed,
     Json(List(<<>>))}

WindowSizes == 0..Min(SLIDER_MAX, MaxWindow)

\* n words separated by single spaces
RECURSIVE Words(_)
Words(n) == IF n = 0 THEN <<>> ELSE IF n = 1 THEN <<"a">> ELSE <<"a", " ">> \o Words(n - 1)

MetricRows ==
    {[id |-> 1, text |-> Words(10), label |-> NumCell(1000)],
     [id |-> 1, text |-> Words(10), label |-> NumCell(0)],
     [id |-> 2, text |-> <<"a", " ", "\t", "a">>, label |-> NumCell(600)],
     [id |-> 2, text |-> NaN, label |-> NanCell],
     [id |-> 1, text |-> <<"a">>, label |-> TextCell]}

MetricTables == UNION {[1..n -> MetricRows] : n \in 1..MaxRows}

\* the values random() takes, as multiples of 1/DrawDen, and the streams of
\* draws a run may see: the cycle below, entered at any point
DrawCycle == <<0, 2, DrawDen>>

DrawStreams(n) ==
    {[k \in 1..n |-> DrawCycle[((k + shift) % Len(DrawCycle)) + 1]] :
        shift \in 0..(Len(DrawCycle) - 1)}

\* ------------------------------------------------------------------- Init
MainDefaults ==
    /\ raw_df = NoFrame
    /\ dict_input = Json(DEFAULT_DICT)
    /\ keyword_dict = parse_dictionary(Json(DEFAULT_DICT)).keyword_dict
    /\ sidebar_error = parse_dictionary(Json(DEFAULT_DICT)).error
    /\ use_context = TRUE
    /\ window_size = Min(SLIDER_DEFAULT, MaxWindow)
    /\ include_hashtags = TRUE
    /\ id_column = Columns[1]
    /\ context_column = Columns[2]
    /\ final_df = NoFrame
    /\ download = <<>>
    /\ exception = FALSE

MetricsDefaults ==
    /\ wm_df = NoFrame
    /\ classifier_columns = <<>>
    /\ process_mode = "Statement-level"
    /\ result_df = NoFrame
    /\ wm_download = <<>>
    /\ wm_error = FALSE

SegIdle ==
    /\ seg_text = <<>>
    /\ seg_hashtags = FALSE
    /\ seg_cleaned = <<>>
    /\ seg_pc = "idle"

ClsIdle ==
    /\ cls_index = 0
    /\ cls_sentences = <<>>
    /\ cls_window = 0
    /\ cls_dict = Dict(<<>>)
    /\ cls_result = ""
    /\ cls_pc = "idle"

Init ==
    /\ page = "main"
    /\ MainDefaults
    /\ MetricsDefaults
    /\ SegIdle
    /\ ClsIdle

\* --------------------------------------------- actions of streamlit_app.py
\* every interaction reruns the script; only the run of a Transform click
\* reaches the result block
NoResult ==
    /\ final_df' = NoFrame
    /\ download' = <<>>
    /\ exception' = FALSE

OtherPagesUnchanged == UNCHANGED <<page, wm_vars, seg_vars, cls_vars>>

\* a file is chosen while the uploader is empty; replacing a file is
\* RemoveCSV followed by UploadCSV
UploadCSV ==
    /\ page = "main"
    /\ ~raw_df.exists
    /\ \E t \in SampleTables : raw_df' = DataFrame(t)
    /\ id_column' = Columns[1]
    /\ context_column' = Columns[2]
    /\ NoResult
    /\ UNCHANGED <<dict_input, keyword_dict, sidebar_error, use_context,
                   window_size, include_hashtags>>
    /\ OtherPagesUnchanged

RemoveCSV ==
    /\ page = "main"
    /\ raw_df.exists
    /\ raw_df' = NoFrame
    /\ id_column' = Columns[1]
    /\ context_column' = Columns[2]
    /\ NoResult
    /\ UNCHANGED <<dict_input, keyword_dict, sidebar_error, use_context,
                   window_size, include_hashtags>>
    /\ OtherPagesUnchanged

EditDictionary ==
    /\ page = "main"
    /\ \E d \in DictInputs \ {dict_input} :
          /\ dict_input' = d
          /\ keyword_dict' = parse_dictionary(d).keyword_dict
          /\ sidebar_error' = parse_dictionary(d).error
    /\ NoResult
    /\ UNCHANGED <<raw_df, use_context, window_size, include_hashtags,
                   id_column, context_column>>
    /\ OtherPagesUnchanged

ToggleContext ==
    /\ page = "main"
    /\ use_context' = ~use_context
    /\ window_size' = IF use_context' THEN Min(SLIDER_DEFAULT, MaxWindow) ELSE 0
    /\ NoResult
    /\ UNCHANGED <<raw_df, dict_input, keyword_dict, sidebar_error,
                   include_hashtags, id_column, context_column>>
    /\ OtherPagesUnchanged

MoveSlider ==
    /\ page = "main"
    /\ use_context
    /\ \E w \in WindowSizes \ {window_size} : window_size' = w
    /\ NoResult
    /\ UNCHANGED <<raw_df, dict_input, keyword_dict, sidebar_error, use_context,
                   include_hashtags, id_column, context_column>>
    /\ OtherPagesUnchanged

ToggleHashtags ==
    /\ page = "main"
    /\ include_hashtags' = ~include_hashtags
    /\ NoResult
    /\ UNCHANGED <<raw_df, dict_input, keyword_dict, sidebar_error, use_context,
                   window_size, id_column, context_column>>
    /\ OtherPagesUnchanged

SelectIdColumn ==
    /\ page = "main"
    /\ raw_df.exists
    /\ \E i \in 1..Len(Columns) : Columns[i] # id_column /\ id_column' = Columns[i]
    /\ NoResult
    /\ UNCHANGED <<raw_df, dict_input, keyword_dict, sidebar_error, use_context,
                   window_size, include_hashtags, context_column>>
    /\ OtherPagesUnchanged

SelectContextColumn ==
    /\ page = "main"
    /\ raw_df.exists
    /\ \E i \in 1..Len(Columns) :
          Columns[i] # context_column /\ context_column' = Columns[i]
    /\ NoResult
    /\ UNCHANGED <<raw_df, dict_input, keyword_dict, sidebar_error, use_context,
                   window_size, include_hashtags, id_column>>
    /\ OtherPagesUnchanged

Transform ==
    /\ page = "main"
    /\ raw_df.exists
    /\ \E out \in {process_dataframe(raw_df.rows, id_column, context_column,
                                    keyword_dict, window_size, include_hashtags)} :
          /\ exception' = out.raised
          /\ final_df' = out.frame
          /\ download' = IF out.raised THEN <<>> ELSE to_csv(out.frame)
    /\ UNCHANGED <<raw_df, dict_input, keyword_dict, sidebar_error, use_context,
                   window_size, include_hashtags, id_column, context_column>>
    /\ OtherPagesUnchanged

\* ----------------------------------------- actions of Pages/Word_Metrics.py
NoMetrics ==
    /\ result_df' = NoFrame
    /\ wm_download' = <<>>
    /\ wm_error' = FALSE

OtherThanMetricsUnchanged == UNCHANGED <<page, main_vars, seg_vars, cls_vars>>

UploadMetricsCSV ==
    /\ page = "metrics"
    /\ ~wm_df.exists
    /\ \E t \in MetricTables : wm_df' = DataFrame(t)
    /\ NoMetrics
    /\ UNCHANGED <<classifier_columns, process_mode>>
    /\ OtherThanMetricsUnchanged

RemoveMetricsCSV ==
    /\ page = "metrics"
    /\ wm_df.exists
    /\ wm_df' = NoFrame
    /\ classifier_columns' = <<>>
    /\ process_mode' = "Statement-level"
    /\ NoMetrics
    /\ OtherThanMetricsUnchanged

SelectClassifierColumns ==
    /\ page = "metrics"
    /\ wm_df.exists
    /\ classifier_columns' = IF classifier_columns = <<>> THEN <<"label">> ELSE <<>>
    /\ NoMetrics
    /\ UNCHANGED <<wm_df, process_mode>>
    /\ OtherThanMetricsUnchanged

SelectProcessMode ==
    /\ page = "metrics"
    /\ wm_df.exists
    /\ process_mode' = IF process_mode = "Statement-level"
                       THEN "Aggregate to ID-level" ELSE "Statement-level"
    /\ NoMetrics
    /\ UNCHANGED <<wm_df, classifier_columns>>
    /\ OtherThanMetricsUnchanged

ProcessData ==
    /\ page = "metrics"
    /\ wm_df.exists
    /\ \E draws \in DrawStreams(Len(wm_df.rows)) :
          \E out \in {process_data(wm_df.rows, process_mode,
                                   classifier_columns, draws)} :
             /\ wm_error' = out.raised
             /\ result_df' = out.frame
             /\ wm_download' = out.frame.rows
    /\ UNCHANGED <<wm_df, classifier_columns, process_mode>>
    /\ OtherThanMetricsUnchanged

\* the sidebar navigation: the other page starts from its defaults
SwitchPage ==
    /\ page' = IF page = "main" THEN "metrics" ELSE "main"
    /\ raw_df' = NoFrame
    /\ dict_input' = Json(DEFAULT_DICT)
    /\ keyword_dict' = parse_dictionary(Json(DEFAULT_DICT)).keyword_dict
    /\ sidebar_error' = parse_dictionary(Json(DEFAULT_DICT)).error
    /\ use_context' = TRUE
    /\ window_size' = Min(SLIDER_DEFAULT, MaxWindow)
    /\ include_hashtags' = TRUE
    /\ id_column' = Columns[1]
    /\ context_column' = Columns[2]
    /\ NoResult
    /\ wm_df' = NoFrame
    /\ classifier_columns' = <<>>
    /\ process_mode' = "Statement-level"
    /\ NoMetrics
    /\ UNCHANGED <<seg_vars, cls_vars>>

Next ==
    \/ UploadCSV
    \/ RemoveCSV
    \/ EditDictionary
    \/ ToggleContext
    \/ MoveSlider
    \/ ToggleHashtags
    \/ SelectIdColumn
    \/ SelectContextColumn
    \/ Transform
    \/ UploadMetricsCSV
    \/ RemoveMetricsCSV
    \/ SelectClassifierColumns
    \/ SelectProcessMode
    \/ ProcessData
    \/ SwitchPage

Spec == Init /\ [][Next]_vars

\* ------------------------------------- segmentation applied to one text
Sigma == {"a", " ", "\t", ".", "#"}

SegInputs == StringsUpTo(Sigma, MaxTextLen) \cup {NaN}

SegInit ==
    /\ page = "main"
    /\ MainDefaults
    /\ MetricsDefaults
    /\ ClsIdle
    /\ seg_text \in SegInputs
    /\ seg_hashtags \in BOOLEAN
    /\ seg_cleaned = <<>>
    /\ seg_pc = "ready"

Segment ==
    /\ seg_pc = "ready"
    /\ seg_cleaned' = segment(seg_text, seg_hashtags)
    /\ seg_pc' = "done"
    /\ UNCHANGED <<seg_text, seg_hashtags, page, main_vars, wm_vars, cls_vars>>

SpecSeg == SegInit /\ [][Segment]_vars

\* ------------------- classify_sentence_with_context applied to one input
SentencePool == {<<"A">>, <<"b">>, <<"c">>}

SentenceLists == UNION {[1..n -> SentencePool] : n \in 1..MaxSentences}

KeywordLists ==
    {List(<<>>),
     List(<<<<"a">>>>),
     List(<<<<"B">>>>),
     List(<<<<"a", " ", "b">>>>),
     List(<<<<"c">>, <<"a">>>>),
     List(<<<<>>>>),
     List(<<<<" ", "c">>>>),
     Str(<<"a", "b">>)}

CategoryNames == {"Fashion", "Food"}

Dictionaries ==
    {Dict(<<>>)}
    \cup {Dict(<<[cat |-> c, kws |-> k]>>) : c \in CategoryNames, k \in KeywordLists}
    \cup {d \in {Dict(<<[cat |-> c1, kws |-> k1], [cat |-> c2, kws |-> k2]>>) :
                     c1 \in CategoryNames, c2 \in CategoryNames,
                     k1 \in KeywordLists, k2 \in KeywordLists} :
            d.items[1].cat # d.items[2].cat}

ClsInit ==
    /\ page = "main"
    /\ MainDefaults
    /\ MetricsDefaults
    /\ SegIdle
    /\ cls_sentences \in SentenceLists
    /\ cls_index \in 0..(Len(cls_sentences) - 1)
    /\ cls_window \in 0..MaxWindow
    /\ cls_dict \in Dictionaries
    /\ cls_result = ""
    /\ cls_pc = "ready"

Classify ==
    /\ cls_pc = "ready"
    /\ cls_result' = classify_sentence_with_context(cls_index, cls_sentences,
                                                    cls_window, cls_dict)
    /\ cls_pc' = "done"
    /\ UNCHANGED <<cls_index, cls_sentences, cls_window, cls_dict, page,
                   main_vars, wm_vars, seg_vars>>

SpecClassify == ClsInit /\ [][Classify]_vars

\* ================================================================ properties
Abs(x) == IF x < 0 THEN -x ELSE x

\* p occurs in text, letter case ignored
OccursIgnoringCase(text, p) ==
    \E off \in 0..(Len(text) - Len(p)) :
        \A j \in 1..Len(p) : LowerChar(text[off + j]) = LowerChar(p[j])

\* the sentences at the 0-based indices max(0, i-w) .. min(len-1, i+w),
\* joined by single spaces
WindowText(sentences, i, w) ==
    LET lo == Max(0, i - w)
        hi == Min(Len(sentences) - 1, i + w)
    IN join([k \in 1..(hi - lo + 1) |-> sentences[lo + k]])

\* the positions of the categories with a phrase occurring in text
MatchingCategories(d, text) ==
    {j \in 1..Len(d.items) :
        \E q \in 1..Len(d.items[j].kws.items) :
            OccursIgnoringCase(text, d.items[j].kws.items[q])}

AllPhraseLists(d) == \A j \in 1..Len(d.items) : d.items[j].kws.type = "list"

UnitsOf(k) ==
    segment(get_cell(raw_df.rows[k], "Context", id_column, context_column),
            include_hashtags)

\* the sentence units of every record
AllUnits == [k \in 1..Len(raw_df.rows) |-> UnitsOf(k)]

\* the positions of the output rows that come from record k
RowsOf(k) == {a \in 1..Len(final_df.rows) : final_df.rows[a].rec = k}

\* C3: statement-level output has exactly one row per sentence unit; rows
\* of an earlier record come before rows of a later one; the rows of one
\* record are in segmentation order with Sentence ID 1, 2, ..., n, n the
\* number of units kept for the record.
C3_OneRowPerUnit ==
    final_df.exists =>
        \A units \in {AllUnits} :
            LET rows == final_df.rows
            IN /\ \A a \in 1..Len(rows) : rows[a].rec \in 1..Len(raw_df.rows)
               /\ \A k \in 1..Len(raw_df.rows) :
                     Cardinality(RowsOf(k)) = Len(units[k])
               /\ \A a \in 1..Len(rows) : \A b \in 1..Len(rows) :
                     a < b => rows[a].rec <= rows[b].rec
               /\ \A a \in 1..Len(rows) :
                     /\ rows[a].Sentence_ID =
                            1 + Cardinality({b \in RowsOf(rows[a].rec) : b < a})
                     /\ rows[a].Statement = units[rows[a].rec][rows[a].Sentence_ID]

\* a first record without units followed by a record of three units
C3_Witness ==
    /\ final_df.exists
    /\ Len(raw_df.rows) = 2
    /\ RowsOf(1) = {}
    /\ Cardinality(RowsOf(2)) = 3
    /\ final_df.rows[3].Sentence_ID = 3

\* the hashtags of s: the whitespace-separated tokens made of '#' and one
\* or more letters
HashtagTokens(s) ==
    {t \in {split_ws(s)[i] : i \in 1..Len(split_ws(s))} :
        /\ Len(t) >= 2
        /\ t[1] = "#"
        /\ \A j \in 2..Len(t) : t[j] \notin Terminal \cup {"#"}}

\* C4: with treat_hashtags_as_sentences on, every hashtag is a sentence unit
\* of its own: the unit's content is the hashtag token alone, also when
\* further words follow it.
C4_HashtagOwnUnit ==
    (seg_pc = "done" /\ seg_hashtags) =>
        \A t \in HashtagTokens(str(seg_text)) :
            \E i \in 1..Len(seg_cleaned) : seg_cleaned[i] = t

\* C5: a record whose text is empty or missing yields zero sentence units:
\* statement-level mode emits no row for it.
C5_MissingTextNoRow ==
    final_df.exists =>
        \A k \in 1..Len(raw_df.rows) :
            get_cell(raw_df.rows[k], "Context", id_column, context_column)
                \in {NaN, <<>>} => RowsOf(k) = {}

\* the number of whitespace-separated tokens of s
TokenCount(s) ==
    Cardinality({i \in 1..Len(s) :
                    s[i] \notin Whitespace /\ (i = 1 \/ s[i - 1] \in Whitespace)})

RECURSIVE SumTokens(_, _)
SumTokens(df, S) ==
    IF S = {} THEN 0
    ELSE LET k == CHOOSE x \in S : TRUE
         IN TokenCount(str(df[k].text)) + SumTokens(df, S \ {k})

\* x is an integer nearest to num / den
Nearest(x, num, den) == 2 * Abs(x * den - num) <= den

\* C6: ID-level mode: for every group and classifier column,
\* positive_ratio = positives / group size, in [0, 1];
\* word_count = round(total_word_count * positive_ratio), between 0 and
\* total_word_count; percentage = round(positive_ratio * 100);
\* total_word_count is the sum of the token counts of the group's text.
C6_Aggregation ==
    (result_df.exists /\ process_mode = "Aggregate to ID-level"
                      /\ classifier_columns # <<>>) =>
        /\ {result_df.rows[a].id : a \in 1..Len(result_df.rows)}
               = {wm_df.rows[k].id : k \in 1..Len(wm_df.rows)}
        /\ \A a \in 1..Len(result_df.rows) :
              LET r == result_df.rows[a]
                  members == {k \in 1..Len(wm_df.rows) : wm_df.rows[k].id = r.id}
                  n == Cardinality(members)
                  pos == Cardinality({k \in members :
                             /\ wm_df.rows[k].label.kind = "num"
                             /\ wm_df.rows[k].label.v > 0})
                  total == SumTokens(wm_df.rows, members)
              IN /\ n >= 1
                 /\ r.positive_ratio = <<pos, n>>
                 /\ 0 <= pos /\ pos <= n
                 /\ r.total_word_count = total
                 /\ Nearest(r.label_word_count, total * pos, n)
                 /\ 0 <= r.label_word_count /\ r.label_word_count <= total
                 /\ Nearest(r.label_percentage, 100 * pos, n)
                 /\ (n = 4 /\ pos = 2 /\ total = 40) =>
                        (r.label_word_count = 20 /\ r.label_percentage = 50)

\* the group of the example: values 1, 0, 1, 0 over 40 words
C6_Witness ==
    /\ result_df.exists
    /\ process_mode = "Aggregate to ID-level"
    /\ classifier_columns # <<>>
    /\ [k \in 1..Len(wm_df.rows) |-> wm_df.rows[k].label.v] = <<1000, 0, 1000, 0>>
    /\ result_df.rows[1].total_word_count = 40
    /\ result_df.rows[1].label_word_count = 20
    /\ result_df.rows[1].label_percentage = 50

\* C7: the continuous score lies in [0.05, 0.95]; it is at least 0.5 for a
\* value v > 0 and at most 0.5 for a value v <= 0.
C7_ScoreBounds ==
    (result_df.exists /\ process_mode = "Statement-level"
                      /\ classifier_columns # <<>>) =>
        \A a \in 1..Len(result_df.rows) :
            LET r == result_df.rows[a]
            IN /\ 50 <= r.label_continuous /\ r.label_continuous <= 950
               /\ (r.label_binary.kind = "num" /\ r.label_binary.v > 0)
                     => r.label_continuous >= 500
               /\ (r.label_binary.kind = "num" /\ r.label_binary.v <= 0)
                     => r.label_continuous <= 500

\* both clamps of the positive branch act in one run
C7_Witness ==
    /\ result_df.exists
    /\ process_mode = "Statement-level"
    /\ classifier_columns # <<>>
    /\ \E a \in 1..Len(result_df.rows) :
          /\ result_df.rows[a].label_binary = NumCell(600)
          /\ result_df.rows[a].label_continuous = 500
    /\ \E a \in 1..Len(result_df.rows) :
          /\ result_df.rows[a].label_binary = NumCell(1000)
          /\ result_df.rows[a].label_continuous = 950
    /\ \E a \in 1..Len(result_df.rows) :
          /\ result_df.rows[a].label_binary = NumCell(0)
          /\ result_df.rows[a].label_continuous = 50

\* the dictionary text is not parseable, or is not a JSON object
DictionaryInvalid ==
    dict_input.syntax = "malformed" \/ dict_input.value.type # "dict"

\* C8 as stated: with an invalid dictionary no Transform run classifies
\* rows with the built-in default dictionary.
C8_NoDefaultFallback ==
    (DictionaryInvalid /\ final_df.exists) => final_df.rows = <<>>

\* C8 amended: with an invalid dictionary the error is shown in the sidebar
\* and the script continues with the built-in default dictionary, which
\* every later Transform run classifies with; a dictionary that is a JSON
\* object is used as given.
C8_FallbackToDefault ==
    /\ DictionaryInvalid =>
          /\ sidebar_error
          /\ keyword_dict = DEFAULT_DICT
          /\ final_df.exists =>
                \A units \in {AllUnits} : \A a \in 1..Len(final_df.rows) :
                    final_df.rows[a].Category =
                        classify_sentence_with_context(
                            final_df.rows[a].Sentence_ID - 1,
                            units[final_df.rows[a].rec], window_size,
                            DEFAULT_DICT)
    /\ ~DictionaryInvalid =>
          /\ ~sidebar_error
          /\ keyword_dict = dict_input.value

\* a Transform run under malformed dictionary text that files a sentence
\* under a category of the default dictionary
C8_Witness ==
    /\ dict_input = Malformed
    /\ sidebar_error
    /\ final_df.exists
    /\ \E a \in 1..Len(final_df.rows) : final_df.rows[a].Category = "Fitness"

\* processing a record with the sentence units `units` raises
UnitsFail(units) ==
    \/ \E i \in 1..Len(units) :
          classify_sentence_with_context(i - 1, units, window_size,
                                         keyword_dict) = Raised
    \/ units # <<>> /\ ~has_column("ID", id_column, context_column)

\* processing record k of the uploaded table raises
RecordFails(k) == \E units \in {UnitsOf(k)} : UnitsFail(units)

\* a selected classifier column holds a value float() rejects
MetricsRowFails(k) ==
    classifier_columns # <<>> /\ wm_df.rows[k].label.kind = "str"

\* C9: no partial output: when processing fails at any row, in either
\* page and mode, no result table is produced, shown or offered for
\* download; a result covers every row of the table.
C9_NoPartialOutput ==
    /\ (raw_df.exists /\ \E k \in 1..Len(raw_df.rows) : RecordFails(k)) =>
          (~final_df.exists /\ download = <<>>)
    /\ exception => (~final_df.exists /\ download = <<>>)
    /\ final_df.exists =>
          /\ \A units \in {AllUnits} : \A k \in 1..Len(raw_df.rows) :
                Cardinality(RowsOf(k)) = Len(units[k])
          /\ Len(download) = Len(final_df.rows) + 1
    /\ (wm_df.exists /\ \E k \in 1..Len(wm_df.rows) : MetricsRowFails(k)) =>
          (~result_df.exists /\ wm_download = <<>>)
    /\ wm_error => (~result_df.exists /\ wm_download = <<>>)
    /\ result_df.exists =>
          /\ Len(result_df.rows) =
                IF process_mode = "Statement-level" THEN Len(wm_df.rows)
                ELSE Cardinality({wm_df.rows[k].id : k \in 1..Len(wm_df.rows)})
          /\ wm_download = result_df.rows

\* a Transform run that fails at the second record after the first record
\* gave rows
C9_Witness ==
    /\ exception
    /\ ~final_df.exists
    /\ Len(raw_df.rows) = 2
    /\ UnitsOf(1) # <<>>
    /\ ~RecordFails(1)
    /\ RecordFails(2)

\* the phrases of one dictionary value: a single string is one phrase
PhrasesOf(kws) == IF kws.type = "str" THEN <<kws.s>> ELSE kws.items

NonEmpty(s) == s # <<>>

ValidPhrases(kws) ==
    SelectSeq([q \in 1..Len(PhrasesOf(kws)) |-> strip(PhrasesOf(kws)[q])], NonEmpty)

HasPhrases(item) == item.kws.items # <<>>

\* the normalised form: phrases trimmed, empty phrases and then empty
\* categories dropped, category order kept
Normalised(d) ==
    Dict(SelectSeq([j \in 1..Len(d.items) |->
                       [cat |-> d.items[j].cat,
                        kws |-> List(ValidPhrases(d.items[j].kws))]],
                   HasPhrases))

\* C10: classifying with a raw dictionary gives the same category as
\* classifying with its normalised form.
C10_NormalisedEquivalent ==
    cls_pc = "done" =>
        cls_result = classify_sentence_with_context(cls_index, cls_sentences,
                                                    cls_window, Normalised(cls_dict))

====
